---- MODULE Spec2Model ----
(***************************************************************************)
(* Model of lxml.pyclasslookup (read-only element proxies handed to a      *)
(* user-supplied lookup() during element class lookup) and of the          *)
(* Schematron validator of schematron.pxi.                                 *)
(***************************************************************************)
EXTENDS Integers, Sequences, FiniteSets, TLC

\* ------------------------------------------------------------------ bounds
MaxNodes == 4      \* native nodes of the document, numbered in document order
MaxProxies == 3    \* proxy objects ever allocated
MaxCalls == 2      \* runs of the dispatcher _lookup_class
MaxInits == 2      \* runs of Schematron.__init__ on the object
MaxValidations == 2 \* runs of Schematron.__call__
MaxThreads == 2    \* threads calling the validator
MaxRet == 2        \* return codes of xmlSchematronValidateDoc lie in -MaxRet..MaxRet

\* ------------------------------------------------------- native XML tree
NULL == 0
Nodes == 1..MaxNodes
Indexes == (0 - 1)..(MaxNodes - 2)
Docs == {"doc"}
LookupReturns == {"None", "MyElementClass"}
Threads == 1..MaxThreads
RetCodes == (0 - MaxRet)..MaxRet
SchemaTrees == {"None", "goodTree", "badTree"}
SchemaFiles == {"None", "goodFile", "badFile"}
SimpleAccessors ==
    {"tag", "text", "tail", "attrib", "prefix", "sourceline",
     "get", "keys", "values", "items"}

VARIABLES
    c_parent,   \* xmlNode.parent of every node (NULL above the root element)
    c_elem,     \* whether a node is an element-type node
    proxies,    \* every _ElementProxy allocated so far, by identity
    pc,         \* position of the dispatcher: "idle" or "lookup"
    call,       \* arguments and root proxy of the running _lookup_class
    ncalls,     \* dispatcher runs started
    dispatch,   \* how the dispatcher run ended, once it has
    last,       \* the last proxy method call since the dispatcher moved, and its outcome
    crashed     \* the process died on a NULL dereference

proxyVars == <<c_parent, c_elem, proxies, pc, call, ncalls, dispatch, last, crashed>>

VARIABLES
    ENABLE_SCHEMATRON,  \* config.ENABLE_SCHEMATRON of this build
    obj,            \* the Schematron object: "new", "live" (an __init__ succeeded), "dead"
    c_schema,       \* self._c_schema
    parser_ctxts,   \* every parser context libxml2 allocated, with its number of frees
    schemas,        \* every compiled schema libxml2 returned, with its number of frees
    init_calls,     \* the native calls of the last __init__, in order
    init_result,    \* arguments and outcome of the last __init__
    ninits,         \* runs of __init__
    vpc,            \* position of each thread in __call__
    valid_ctxt,     \* valid_ctxt of each thread's __call__
    ret,            \* ret of each thread's __call__
    vresult,        \* outcome of each thread's last __call__
    valid_ctxts,    \* every validation context allocated, with its number of frees
    fake_docs,      \* fake root documents: created and destroyed
    log_connected,  \* whether self._error_log is the connected error receiver
    nvalidations,   \* runs of __call__
    trace           \* the steps of each thread's last __call__, in program order,
                    \* each with whether the thread held the interpreter lock

schVars == <<ENABLE_SCHEMATRON, obj, c_schema, parser_ctxts, schemas, init_calls,
             init_result, ninits, vpc, valid_ctxt, ret, vresult, valid_ctxts, fake_docs,
             log_connected, nvalidations, trace>>
vars == <<proxyVars, schVars>>

\* ---- xmlNode fields: siblings are the nodes with the same parent, by number
Siblings(n) == {m \in Nodes : c_parent[m] = c_parent[n]}
SetMin(S) == CHOOSE x \in S : \A y \in S : x <= y
SetMax(S) == CHOOSE x \in S : \A y \in S : x >= y
c_children(n) ==
    LET S == {m \in Nodes : c_parent[m] = n} IN IF S = {} THEN NULL ELSE SetMin(S)
c_last(n) ==
    LET S == {m \in Nodes : c_parent[m] = n} IN IF S = {} THEN NULL ELSE SetMax(S)
c_next(n) ==
    LET S == {m \in Siblings(n) : m > n} IN IF S = {} THEN NULL ELSE SetMin(S)
c_prev(n) ==
    LET S == {m \in Siblings(n) : m < n} IN IF S = {} THEN NULL ELSE SetMax(S)

_isElement(n) == c_elem[n]

\* cetree.namespacedName: the qualified tag name of a node
namespacedName(n) == IF n % 2 = 1 THEN "a" ELSE "b"

\* cetree.findChild and its two directions
RECURSIVE ForwardsFrom(_, _, _)
ForwardsFrom(c_child, c, index) ==
    IF c_child = NULL THEN NULL
    ELSE IF _isElement(c_child)
         THEN IF c = index THEN c_child
              ELSE ForwardsFrom(c_next(c_child), c + 1, index)
         ELSE ForwardsFrom(c_next(c_child), c, index)

RECURSIVE BackwardsFrom(_, _, _)
BackwardsFrom(c_child, c, index) ==
    IF c_child = NULL THEN NULL
    ELSE IF _isElement(c_child)
         THEN IF c = index THEN c_child
              ELSE BackwardsFrom(c_prev(c_child), c + 1, index)
         ELSE BackwardsFrom(c_prev(c_child), c, index)

findChildForwards(c_node, index) == ForwardsFrom(c_children(c_node), 0, index)
findChildBackwards(c_node, index) == BackwardsFrom(c_last(c_node), 0, index)
findChild(c_node, index) ==
    IF index < 0 THEN findChildBackwards(c_node, (0 - index) - 1)
    ELSE findChildForwards(c_node, index)

RECURSIVE nextElementFrom(_)
nextElementFrom(c_node) ==
    IF c_node = NULL THEN NULL
    ELSE IF _isElement(c_node) THEN c_node ELSE nextElementFrom(c_next(c_node))
nextElement(c_node) == nextElementFrom(c_next(c_node))

RECURSIVE previousElementFrom(_)
previousElementFrom(c_node) ==
    IF c_node = NULL THEN NULL
    ELSE IF _isElement(c_node) THEN c_node ELSE previousElementFrom(c_prev(c_node))
previousElement(c_node) == previousElementFrom(c_prev(c_node))

\* ------------------------------------------------------------ _ElementProxy
ProxyIds == 1..Len(proxies)

_assertNode(self) == proxies[self]._c_node # NULL

\* _newProxy without the registration of a non-root proxy in its source's list
_newProxy_Unregistered(ps, sourceProxy, c_node) ==
    LET el == Len(ps) + 1 IN
    IF sourceProxy = 0
    THEN Append(ps, [_c_node |-> c_node, _source_proxy |-> el,
                     has_dependent_proxies |-> TRUE, _dependent_proxies |-> <<el>>])
    ELSE Append(ps, [_c_node |-> c_node, _source_proxy |-> sourceProxy,
                     has_dependent_proxies |-> FALSE, _dependent_proxies |-> <<>>])

\* _newProxy on the proxy store ps; the new proxy is Len(ps) + 1
_newProxy(ps, sourceProxy, c_node) ==
    LET el == Len(ps) + 1 IN
    IF sourceProxy = 0
    THEN Append(ps, [_c_node |-> c_node, _source_proxy |-> el,
                     has_dependent_proxies |-> TRUE, _dependent_proxies |-> <<el>>])
    ELSE [Append(ps, [_c_node |-> c_node, _source_proxy |-> sourceProxy,
                      has_dependent_proxies |-> FALSE, _dependent_proxies |-> <<>>])
            EXCEPT ![sourceProxy]._dependent_proxies = Append(@, el)]

\* _newProxy for each node of a list, in order
RECURSIVE newProxies(_, _, _)
newProxies(ps, sourceProxy, c_nodes) ==
    IF c_nodes = <<>> THEN ps
    ELSE newProxies(_newProxy(ps, sourceProxy, Head(c_nodes)), sourceProxy, Tail(c_nodes))

NewIds(ps, k) == [i \in 1..k |-> Len(ps) + i]

SeqRange(s) == {s[i] : i \in 1..Len(s)}

_freeProxies(ps, sourceProxy) ==
    IF sourceProxy = 0 THEN ps
    ELSE IF ~ps[sourceProxy].has_dependent_proxies THEN ps
    ELSE LET deps == SeqRange(ps[sourceProxy]._dependent_proxies) IN
         [el \in 1..Len(ps) |->
            LET nulled == IF el \in deps THEN [ps[el] EXCEPT !._c_node = NULL] ELSE ps[el]
            IN IF el = sourceProxy
               THEN [nulled EXCEPT !._dependent_proxies = <<>>]
               ELSE nulled]

\* outcomes of a method call
Outcome(op, self, a, b, native, exc, val) ==
    [op |-> op, self |-> self, a |-> a, b |-> b,
     c_node |-> proxies[self]._c_node, native |-> native, exc |-> exc, val |-> val]
NoCallYet ==
    [op |-> "", self |-> 0, a |-> 0, b |-> 0, c_node |-> NULL, native |-> FALSE,
     exc |-> "", val |-> <<>>]

\* a method can be called once the caller has taken the previous outcome
Running == ~crashed
Ready == Running /\ last = NoCallYet
Keep == UNCHANGED <<c_parent, c_elem, pc, call, ncalls, dispatch, schVars>>

\* tag, text, tail, attrib, prefix, sourceline, get, keys, values, items
Accessor(self, name) ==
    /\ Ready
    /\ IF ~_assertNode(self)
       THEN last' = Outcome(name, self, 0, 0, FALSE, "AssertionError", <<>>)
       ELSE last' = Outcome(name, self, 0, 0, TRUE, "", <<proxies[self]._c_node>>)
    /\ UNCHANGED <<proxies, crashed>>
    /\ Keep

\* line 125 with the index taken as 1-based
getitem_child_OneBased(c_node, index) == findChild(c_node, index - 1)

\* line 125: the child __getitem__ asks the tree for
getitem_child(c_node, index) == findChild(c_node, index)

\* __getitem__: no _assertNode; a NULL self._c_node goes straight to findChild,
\* which reads c_node.children: the process dies, or the read yields no child
__getitem__(self, index) ==
    /\ Ready
    /\ IF proxies[self]._c_node = NULL
       THEN /\ \E died \in BOOLEAN :
                 /\ crashed' = died
                 /\ last' = Outcome("__getitem__", self, index, 0, TRUE,
                                    IF died THEN "SIGSEGV" ELSE "IndexError", <<>>)
            /\ UNCHANGED proxies
       ELSE LET c_node == getitem_child(proxies[self]._c_node, index) IN
            IF c_node = NULL
            THEN /\ last' = Outcome("__getitem__", self, index, 0, TRUE, "IndexError", <<>>)
                 /\ UNCHANGED <<proxies, crashed>>
            ELSE /\ Len(proxies) < MaxProxies
                 /\ proxies' = _newProxy(proxies, proxies[self]._source_proxy, c_node)
                 /\ last' = Outcome("__getitem__", self, index, 0, TRUE, "",
                                    NewIds(proxies, 1))
                 /\ UNCHANGED crashed
    /\ Keep

\* SliceLoop with c counting every sibling, element or not
RECURSIVE SliceLoop_CountsAll(_, _, _)
SliceLoop_CountsAll(c_node, c, stop) ==
    IF c_node # NULL /\ c < stop
    THEN IF _isElement(c_node)
         THEN <<c_node>> \o SliceLoop_CountsAll(c_next(c_node), c + 1, stop)
         ELSE SliceLoop_CountsAll(c_next(c_node), c + 1, stop)
    ELSE <<>>

\* the while loop of __getslice__: the nodes a proxy is appended for
RECURSIVE SliceLoop(_, _, _)
SliceLoop(c_node, c, stop) ==
    IF c_node # NULL /\ c < stop
    THEN IF _isElement(c_node)
         THEN <<c_node>> \o SliceLoop(c_next(c_node), c + 1, stop)
         ELSE SliceLoop(c_next(c_node), c, stop)
    ELSE <<>>

\* __getslice__: no _assertNode either
__getslice__(self, start, stop) ==
    /\ Ready
    /\ IF proxies[self]._c_node = NULL
       THEN /\ \E died \in BOOLEAN :
                 /\ crashed' = died
                 /\ last' = Outcome("__getslice__", self, start, stop, TRUE,
                                    IF died THEN "SIGSEGV" ELSE "", <<>>)
            /\ UNCHANGED proxies
       ELSE LET c_node == findChild(proxies[self]._c_node, start) IN
            IF c_node = NULL
            THEN /\ last' = Outcome("__getslice__", self, start, stop, TRUE, "", <<>>)
                 /\ UNCHANGED <<proxies, crashed>>
            ELSE LET result == SliceLoop(c_node, start, stop) IN
                 /\ Len(proxies) + Len(result) <= MaxProxies
                 /\ proxies' = newProxies(proxies, proxies[self]._source_proxy, result)
                 /\ last' = Outcome("__getslice__", self, start, stop, TRUE, "",
                                    NewIds(proxies, Len(result)))
                 /\ UNCHANGED crashed
    /\ Keep

\* LenLoop counting every child, element or not
RECURSIVE LenLoop_CountsAll(_, _)
LenLoop_CountsAll(c_node, c) ==
    IF c_node # NULL THEN LenLoop_CountsAll(c_next(c_node), c + 1) ELSE c

\* the while loop of __len__
RECURSIVE LenLoop(_, _)
LenLoop(c_node, c) ==
    IF c_node # NULL
    THEN IF _isElement(c_node) THEN LenLoop(c_next(c_node), c + 1)
         ELSE LenLoop(c_next(c_node), c)
    ELSE c

__len__(self) ==
    /\ Ready
    /\ IF ~_assertNode(self)
       THEN last' = Outcome("__len__", self, 0, 0, FALSE, "AssertionError", <<>>)
       ELSE last' = Outcome("__len__", self, 0, 0, TRUE, "",
                            <<LenLoop(c_children(proxies[self]._c_node), 0)>>)
    /\ UNCHANGED <<proxies, crashed>>
    /\ Keep

\* __nonzero__: the value is 1 for True and 0 for False
__nonzero__(self) ==
    /\ Ready
    /\ IF ~_assertNode(self)
       THEN last' = Outcome("__nonzero__", self, 0, 0, FALSE, "AssertionError", <<>>)
       ELSE LET c_node == findChildBackwards(proxies[self]._c_node, 0) IN
            last' = Outcome("__nonzero__", self, 0, 0, TRUE, "",
                            <<IF c_node # NULL THEN 1 ELSE 0>>)
    /\ UNCHANGED <<proxies, crashed>>
    /\ Keep

\* the while loop of getchildren: the nodes a proxy is appended for
RECURSIVE ChildrenLoop(_)
ChildrenLoop(c_node) ==
    IF c_node # NULL
    THEN IF _isElement(c_node)
         THEN <<c_node>> \o ChildrenLoop(c_next(c_node))
         ELSE ChildrenLoop(c_next(c_node))
    ELSE <<>>

\* getchildren, and __iter__ which is iter(self.getchildren())
getchildren(self, op) ==
    /\ Ready
    /\ IF ~_assertNode(self)
       THEN /\ last' = Outcome(op, self, 0, 0, FALSE, "AssertionError", <<>>)
            /\ UNCHANGED proxies
       ELSE LET result == ChildrenLoop(c_children(proxies[self]._c_node)) IN
            /\ Len(proxies) + Len(result) <= MaxProxies
            /\ proxies' = newProxies(proxies, proxies[self]._source_proxy, result)
            /\ last' = Outcome(op, self, 0, 0, TRUE, "", NewIds(proxies, Len(result)))
    /\ UNCHANGED crashed
    /\ Keep

Reverse(s) == [i \in 1..Len(s) |-> s[Len(s) + 1 - i]]

\* iterchildren(tag, reversed): tag "" stands for None; a is 1 when reversed
iterchildren(self, tag, reversed) ==
    /\ Ready
    /\ IF ~_assertNode(self)
       THEN /\ last' = Outcome("iterchildren", self, 0, 0, FALSE, "AssertionError", <<>>)
            /\ UNCHANGED proxies
       ELSE LET result == ChildrenLoop(c_children(proxies[self]._c_node))
                ps == newProxies(proxies, proxies[self]._source_proxy, result)
                children == NewIds(proxies, Len(result))
                HasTag(el) == namespacedName(ps[el]._c_node) = tag
                filtered == IF tag # "" THEN SelectSeq(children, HasTag) ELSE children
            IN
            /\ Len(proxies) + Len(result) <= MaxProxies
            /\ proxies' = ps
            /\ last' = Outcome("iterchildren", self, IF reversed THEN 1 ELSE 0, 0, TRUE, "",
                               IF reversed THEN Reverse(filtered) ELSE filtered)
    /\ UNCHANGED crashed
    /\ Keep

\* getparent, getnext, getprevious: an empty value stands for None
Navigate(self, op, c_node) ==
    IF c_node = NULL
    THEN /\ last' = Outcome(op, self, 0, 0, TRUE, "", <<>>)
         /\ UNCHANGED proxies
    ELSE /\ Len(proxies) < MaxProxies
         /\ proxies' = _newProxy(proxies, proxies[self]._source_proxy, c_node)
         /\ last' = Outcome(op, self, 0, 0, TRUE, "", NewIds(proxies, 1))

getparent(self) ==
    /\ Ready
    /\ IF ~_assertNode(self)
       THEN /\ last' = Outcome("getparent", self, 0, 0, FALSE, "AssertionError", <<>>)
            /\ UNCHANGED proxies
       ELSE LET c_par == c_parent[proxies[self]._c_node] IN
            IF c_par = NULL \/ ~_isElement(c_par)
            THEN Navigate(self, "getparent", NULL)
            ELSE Navigate(self, "getparent", c_par)
    /\ UNCHANGED crashed
    /\ Keep

getnext(self) ==
    /\ Ready
    /\ IF ~_assertNode(self)
       THEN /\ last' = Outcome("getnext", self, 0, 0, FALSE, "AssertionError", <<>>)
            /\ UNCHANGED proxies
       ELSE Navigate(self, "getnext", nextElement(proxies[self]._c_node))
    /\ UNCHANGED crashed
    /\ Keep

getprevious(self) ==
    /\ Ready
    /\ IF ~_assertNode(self)
       THEN /\ last' = Outcome("getprevious", self, 0, 0, FALSE, "AssertionError", <<>>)
            /\ UNCHANGED proxies
       ELSE Navigate(self, "getprevious", previousElement(proxies[self]._c_node))
    /\ UNCHANGED crashed
    /\ Keep

\* -------------------------------------------- PythonElementClassLookup
\* cetree.callLookupFallback: the fallback's class for (doc, c_node)
callLookupFallback(doc, c_node) ==
    [status |-> "returned", returned |-> "None", cls |-> "FallbackClass",
     by |-> "fallback", doc |-> doc, c_node |-> c_node, proxy |-> call.proxy]

NotDispatched ==
    [status |-> "none", returned |-> "", cls |-> "", by |-> "", doc |-> "",
     c_node |-> NULL, proxy |-> 0]

\* LookupEnter handing a torn-down root proxy back out for the node it is called on
LookupEnter_Revive(doc, c_node) ==
    /\ Running
    /\ pc = "idle"
    /\ ncalls < MaxCalls
    /\ Len(proxies) < MaxProxies
    /\ _isElement(c_node)
    /\ proxies' = LET ps == _newProxy(proxies, 0, c_node) IN
                  [el \in 1..Len(ps) |->
                     IF el <= Len(proxies) /\ ps[el].has_dependent_proxies
                        /\ ps[el]._c_node = NULL
                     THEN [ps[el] EXCEPT !._c_node = c_node]
                     ELSE ps[el]]
    /\ call' = [doc |-> doc, c_node |-> c_node, proxy |-> Len(proxies) + 1]
    /\ pc' = "lookup"
    /\ ncalls' = ncalls + 1
    /\ dispatch' = NotDispatched
    /\ last' = NoCallYet
    /\ UNCHANGED <<c_parent, c_elem, crashed, schVars>>

\* _lookup_class up to the call of lookup.lookup(doc, proxy)
LookupEnter(doc, c_node) ==
    /\ Running
    /\ pc = "idle"
    /\ ncalls < MaxCalls
    /\ Len(proxies) < MaxProxies
    /\ _isElement(c_node)
    /\ proxies' = _newProxy(proxies, 0, c_node)
    /\ call' = [doc |-> doc, c_node |-> c_node, proxy |-> Len(proxies) + 1]
    /\ pc' = "lookup"
    /\ ncalls' = ncalls + 1
    /\ dispatch' = NotDispatched
    /\ last' = NoCallYet
    /\ UNCHANGED <<c_parent, c_elem, crashed, schVars>>

\* LookupReturn with the fallback called on the node of the freed proxy
LookupReturn_ProxyNode(cls) ==
    /\ Running
    /\ pc = "lookup"
    /\ proxies' = _freeProxies(proxies, call.proxy)
    /\ dispatch' = IF cls # "None"
                   THEN [status |-> "returned", returned |-> cls, cls |-> cls,
                         by |-> "lookup", doc |-> call.doc, c_node |-> call.c_node,
                         proxy |-> call.proxy]
                   ELSE callLookupFallback(call.doc, proxies'[call.proxy]._c_node)
    /\ pc' = "idle"
    /\ last' = NoCallYet
    /\ UNCHANGED <<c_parent, c_elem, call, ncalls, crashed, schVars>>

\* lookup() returned cls: _freeProxies, then the class or the fallback
LookupReturn(cls) ==
    /\ Running
    /\ pc = "lookup"
    /\ proxies' = _freeProxies(proxies, call.proxy)
    /\ dispatch' = IF cls # "None"
                   THEN [status |-> "returned", returned |-> cls, cls |-> cls,
                         by |-> "lookup", doc |-> call.doc, c_node |-> call.c_node,
                         proxy |-> call.proxy]
                   ELSE callLookupFallback(call.doc, call.c_node)
    /\ pc' = "idle"
    /\ last' = NoCallYet
    /\ UNCHANGED <<c_parent, c_elem, call, ncalls, crashed, schVars>>

\* lookup() raised: the exception leaves _lookup_class at once
LookupRaise ==
    /\ Running
    /\ pc = "lookup"
    /\ dispatch' = [status |-> "raised", returned |-> "", cls |-> "", by |-> "lookup",
                    doc |-> call.doc, c_node |-> call.c_node, proxy |-> call.proxy]
    /\ pc' = "idle"
    /\ last' = NoCallYet
    /\ UNCHANGED <<c_parent, c_elem, proxies, call, ncalls, crashed, schVars>>

\* the caller takes the outcome of a method call and goes on
Continue ==
    /\ Running
    /\ last # NoCallYet
    /\ last' = NoCallYet
    /\ UNCHANGED <<proxies, crashed>>
    /\ Keep

\* ------------------------------------------------------------ Schematron
\* __init__ of the validator object; "None" stands for an argument left out.
\* alloc_ok: whether libxml2 could allocate the parser context.
IsSchematronSchema(src) == src \in {"goodTree", "goodFile"}

InitResult(etree, file, alloc_ok, exc, schema_from) ==
    [etree |-> etree, file |-> file, alloc_ok |-> alloc_ok, exc |-> exc,
     schema_from |-> schema_from]
NativeCall(fn, src, ptr) == [fn |-> fn, src |-> src, ptr |-> ptr]

\* python.PyErr_NoMemory(): sets MemoryError, and the call's error return raises it
PyErr_NoMemory == "MemoryError"

\* Compile without the NULL check: a NULL parser_ctxt goes on to the parser
Compile_Unchecked(etree, file, src, calls, alloc_ok) ==
    LET parser_ctxt == IF alloc_ok THEN Len(parser_ctxts) + 1 ELSE NULL
        parsed == IF alloc_ok /\ IsSchematronSchema(src) THEN Len(schemas) + 1 ELSE NULL
    IN
    /\ c_schema' = parsed
    /\ schemas' = IF parsed # NULL
                  THEN Append(schemas, [src |-> src, freed |-> 0])
                  ELSE schemas
    /\ parser_ctxts' = IF alloc_ok
                       THEN Append(parser_ctxts, [src |-> src, freed |-> 1])
                       ELSE parser_ctxts
    /\ init_calls' = calls \o <<NativeCall("xmlSchematronParse", src, parser_ctxt),
                                NativeCall("xmlSchematronFreeParserCtxt", src, parser_ctxt)>>
    /\ IF parsed = NULL
       THEN /\ init_result' = InitResult(etree, file, alloc_ok, "SchematronParseError", "")
            /\ UNCHANGED obj
       ELSE /\ init_result' = InitResult(etree, file, alloc_ok, "", src)
            /\ obj' = "live"

\* Compile raising the parse error before the parser context is released
Compile_RaiseBeforeFree(etree, file, src, calls, alloc_ok) ==
    LET parser_ctxt == IF alloc_ok THEN Len(parser_ctxts) + 1 ELSE NULL IN
    IF parser_ctxt = NULL
    THEN /\ init_result' = InitResult(etree, file, alloc_ok, PyErr_NoMemory, "")
         /\ init_calls' = calls
         /\ c_schema' = NULL
         /\ UNCHANGED <<parser_ctxts, schemas, obj>>
    ELSE LET parsed == IF IsSchematronSchema(src) THEN Len(schemas) + 1 ELSE NULL IN
         /\ c_schema' = parsed
         /\ schemas' = IF parsed # NULL
                       THEN Append(schemas, [src |-> src, freed |-> 0])
                       ELSE schemas
         /\ IF parsed = NULL
            THEN /\ init_result' = InitResult(etree, file, alloc_ok, "SchematronParseError", "")
                 /\ parser_ctxts' = Append(parser_ctxts, [src |-> src, freed |-> 0])
                 /\ init_calls' = calls \o <<NativeCall("xmlSchematronParse", src, parser_ctxt)>>
                 /\ UNCHANGED obj
            ELSE /\ init_result' = InitResult(etree, file, alloc_ok, "", src)
                 /\ parser_ctxts' = Append(parser_ctxts, [src |-> src, freed |-> 1])
                 /\ init_calls' = calls \o
                       <<NativeCall("xmlSchematronParse", src, parser_ctxt),
                         NativeCall("xmlSchematronFreeParserCtxt", src, parser_ctxt)>>
                 /\ obj' = "live"

\* lines 103-111: from the NULL check of parser_ctxt to the end of __init__
Compile(etree, file, src, calls, alloc_ok) ==
    LET parser_ctxt == IF alloc_ok THEN Len(parser_ctxts) + 1 ELSE NULL IN
    IF parser_ctxt = NULL
    THEN /\ init_result' = InitResult(etree, file, alloc_ok, PyErr_NoMemory, "")
         /\ init_calls' = calls
         /\ c_schema' = NULL
         /\ UNCHANGED <<parser_ctxts, schemas, obj>>
    ELSE LET parsed == IF IsSchematronSchema(src) THEN Len(schemas) + 1 ELSE NULL IN
         /\ c_schema' = parsed
         /\ schemas' = IF parsed # NULL
                       THEN Append(schemas, [src |-> src, freed |-> 0])
                       ELSE schemas
         /\ parser_ctxts' = Append(parser_ctxts, [src |-> src, freed |-> 1])
         /\ init_calls' = calls \o <<NativeCall("xmlSchematronParse", src, parser_ctxt),
                                     NativeCall("xmlSchematronFreeParserCtxt", src, parser_ctxt)>>
         /\ IF parsed = NULL
            THEN /\ init_result' = InitResult(etree, file, alloc_ok, "SchematronParseError", "")
                 /\ UNCHANGED obj
            ELSE /\ init_result' = InitResult(etree, file, alloc_ok, "", src)
                 /\ obj' = "live"

\* SourceOf without the final else: a file of None is taken as the source
SourceOf_NoElse(etree, file) ==
    IF etree # "None" THEN "etree" ELSE "file"

\* SourceOf with the file tested first
SourceOf_FileFirst(etree, file) ==
    IF file # "None" THEN "file"
    ELSE IF etree # "None" THEN "etree"
    ELSE "none"

\* lines 87-101: which source the if / elif / else takes
SourceOf(etree, file) ==
    IF etree # "None" THEN "etree"
    ELSE IF file # "None" THEN "file"
    ELSE "none"

__init__(etree, file, alloc_ok) ==
    /\ obj \in {"new", "live"}
    /\ ninits < MaxInits
    /\ \A t \in Threads : vpc[t] = "idle"
    /\ ninits' = ninits + 1
    /\ IF ~ENABLE_SCHEMATRON
       THEN /\ init_result' = InitResult(etree, file, alloc_ok, "SchematronError", "")
            /\ init_calls' = <<>>
            /\ UNCHANGED <<c_schema, parser_ctxts, schemas, obj>>
       ELSE IF SourceOf(etree, file) = "etree"
       THEN Compile(etree, file, etree,
                    <<NativeCall("_copyDocRoot", etree, NULL),
                      NativeCall("xmlSchematronNewDocParserCtxt", etree,
                                 IF alloc_ok THEN Len(parser_ctxts) + 1 ELSE NULL)>>,
                    alloc_ok)
       ELSE IF SourceOf(etree, file) = "file"
       THEN Compile(etree, file, file,
                    <<NativeCall("_getFilenameForFile", file, NULL),
                      NativeCall("xmlSchematronNewParserCtxt", file,
                                 IF alloc_ok THEN Len(parser_ctxts) + 1 ELSE NULL)>>,
                    alloc_ok)
       ELSE /\ init_result' = InitResult(etree, file, alloc_ok, "SchematronParseError", "")
            /\ init_calls' = <<>>
            /\ c_schema' = NULL
            /\ UNCHANGED <<parser_ctxts, schemas, obj>>
    /\ UNCHANGED <<ENABLE_SCHEMATRON, vpc, valid_ctxt, ret, vresult, valid_ctxts,
                   fake_docs, log_connected, nvalidations, trace, proxyVars>>

\* __dealloc__: xmlSchematronFree(self._c_schema), which ignores NULL
__dealloc__ ==
    /\ obj \in {"new", "live"}
    /\ \A t \in Threads : vpc[t] = "idle"
    /\ obj' = "dead"
    /\ schemas' = IF c_schema # NULL
                  THEN [schemas EXCEPT ![c_schema].freed = @ + 1]
                  ELSE schemas
    /\ UNCHANGED <<ENABLE_SCHEMATRON, c_schema, parser_ctxts, init_calls, init_result,
                   ninits, vpc, valid_ctxt, ret, vresult, valid_ctxts, fake_docs,
                   log_connected, nvalidations, trace, proxyVars>>

\* _documentOrRaise / _rootNodeOrRaise: only a tree passes
_documentOrRaise(etree) == etree = "tree"

NoResult == [exc |-> "", value |-> "", ret |-> 0, evaluated |-> FALSE]

\* ---- the steps of __call__ and what each does to the lock and to the log
Count(steps, name) == Cardinality({i \in DOMAIN steps : steps[i] = name})

\* PyEval_SaveThread releases the interpreter lock, PyEval_RestoreThread takes it back
LockAfterStep(held, step) ==
    IF step = "PyEval_SaveThread" THEN FALSE
    ELSE IF step = "PyEval_RestoreThread" THEN TRUE
    ELSE held

\* _ErrorLog.connect() makes the log the error receiver, disconnect() ends that
LogAfterStep(connected, step) ==
    IF step = "connect" THEN TRUE
    ELSE IF step = "disconnect" THEN FALSE
    ELSE connected

RECURSIVE LogAfter(_, _)
LogAfter(connected, steps) ==
    IF steps = <<>> THEN connected
    ELSE LogAfter(LogAfterStep(connected, Head(steps)), Tail(steps))

\* each step paired with the lock state the thread runs it in
RECURSIVE Annotate(_, _)
Annotate(held, steps) ==
    IF steps = <<>> THEN <<>>
    ELSE <<[step |-> Head(steps), held |-> held]>>
         \o Annotate(LockAfterStep(held, Head(steps)), Tail(steps))

\* the lock state a thread is left in by the steps it has run
HeldAfter(tr) ==
    IF tr = <<>> THEN TRUE ELSE LockAfterStep(tr[Len(tr)].held, tr[Len(tr)].step)

\* a variant of BeginSteps that leaves the log connected when no context was created
BeginSteps_NoDisconnect(doc_ok, ctxt) ==
    IF ~doc_ok
    THEN <<"_documentOrRaise", "raise">>
    ELSE IF ctxt = NULL
    THEN <<"_documentOrRaise", "connect", "xmlSchematronNewValidCtxt", "raise">>
    ELSE <<"_documentOrRaise", "connect", "xmlSchematronNewValidCtxt",
           "_fakeRootDoc", "PyEval_SaveThread">>

\* lines 128-143 in program order: the steps up to PyEval_SaveThread or to a raise
BeginSteps(doc_ok, ctxt) ==
    IF ~doc_ok
    THEN <<"_documentOrRaise", "raise">>
    ELSE IF ctxt = NULL
    THEN <<"_documentOrRaise", "connect", "xmlSchematronNewValidCtxt",
           "disconnect", "raise">>
    ELSE <<"_documentOrRaise", "connect", "xmlSchematronNewValidCtxt",
           "_fakeRootDoc", "PyEval_SaveThread">>

\* __call__ from its start to PyEval_SaveThread (lines 128-143), or to an early raise.
\* vctx_ok: whether libxml2 could allocate the validation context.
CallBegin(t, etree, vctx_ok) ==
    /\ obj = "live"
    /\ vpc[t] = "idle"
    /\ nvalidations < MaxValidations
    /\ nvalidations' = nvalidations + 1
    /\ LET doc_ok == _documentOrRaise(etree)
           ctxt == IF c_schema # NULL /\ vctx_ok THEN Len(valid_ctxts) + 1 ELSE NULL
           steps == BeginSteps(doc_ok, ctxt)
       IN
       /\ trace' = [trace EXCEPT ![t] = Annotate(TRUE, steps)]
       /\ log_connected' = LogAfter(log_connected, steps)
       /\ fake_docs' = [fake_docs EXCEPT !.created = @ + Count(steps, "_fakeRootDoc")]
       /\ IF ~doc_ok
          THEN /\ vresult' = [vresult EXCEPT ![t] = [NoResult EXCEPT !.exc = "TypeError"]]
               /\ UNCHANGED <<vpc, valid_ctxt, valid_ctxts>>
          ELSE IF ctxt = NULL
          THEN /\ vresult' = [vresult EXCEPT
                                ![t] = [NoResult EXCEPT !.exc = "SchematronError"]]
               /\ UNCHANGED <<vpc, valid_ctxt, valid_ctxts>>
          ELSE /\ valid_ctxts' = Append(valid_ctxts, [freed |-> 0])
               /\ valid_ctxt' = [valid_ctxt EXCEPT ![t] = ctxt]
               /\ vresult' = [vresult EXCEPT ![t] = NoResult]
               /\ vpc' = [vpc EXCEPT ![t] = IF "PyEval_SaveThread" \in SeqRange(steps)
                                            THEN "native" ELSE "idle"]
    /\ UNCHANGED <<ENABLE_SCHEMATRON, obj, c_schema, parser_ctxts, schemas, init_calls,
                   init_result, ninits, ret, proxyVars>>

\* lines 151-156: the outcome of __call__ for the return code r
ReturnCode(r) ==
    IF r = 0 - 1
    THEN [exc |-> "SchematronValidateError", value |-> "", ret |-> r, evaluated |-> TRUE]
    ELSE IF r = 0
    THEN [exc |-> "", value |-> "True", ret |-> r, evaluated |-> TRUE]
    ELSE [exc |-> "", value |-> "False", ret |-> r, evaluated |-> TRUE]

\* a variant of EndSteps that raises on the internal error before cleaning up
EndSteps_RaiseFirst(r) ==
    IF ReturnCode(r).exc # ""
    THEN <<"xmlSchematronValidateDoc", "PyEval_RestoreThread", "disconnect", "raise">>
    ELSE <<"xmlSchematronValidateDoc", "PyEval_RestoreThread", "_destroyFakeDoc",
           "xmlSchematronFreeValidCtxt", "disconnect", "return">>

\* a variant of EndSteps that disconnects the log before freeing the context
EndSteps_DisconnectFirst(r) ==
    <<"xmlSchematronValidateDoc", "PyEval_RestoreThread", "_destroyFakeDoc",
      "disconnect", "xmlSchematronFreeValidCtxt",
      IF ReturnCode(r).exc # "" THEN "raise" ELSE "return">>

\* a variant of EndSteps that takes the lock back only after the fake root is gone
EndSteps_LateRestore(r) ==
    <<"xmlSchematronValidateDoc", "_destroyFakeDoc", "PyEval_RestoreThread",
      "xmlSchematronFreeValidCtxt", "disconnect",
      IF ReturnCode(r).exc # "" THEN "raise" ELSE "return">>

\* lines 144-156 in program order: the native evaluation and everything after it
EndSteps(r) ==
    <<"xmlSchematronValidateDoc", "PyEval_RestoreThread", "_destroyFakeDoc",
      "xmlSchematronFreeValidCtxt", "disconnect",
      IF ReturnCode(r).exc # "" THEN "raise" ELSE "return">>

\* xmlSchematronValidateDoc returns r; __call__ from PyEval_RestoreThread to its end
CallEnd(t, r) ==
    /\ vpc[t] = "native"
    /\ ret' = [ret EXCEPT ![t] = r]
    /\ LET steps == EndSteps(r) IN
       /\ trace' = [trace EXCEPT ![t] = @ \o Annotate(HeldAfter(@), steps)]
       /\ fake_docs' = [fake_docs EXCEPT !.destroyed = @ + Count(steps, "_destroyFakeDoc")]
       /\ valid_ctxts' = [valid_ctxts EXCEPT ![valid_ctxt[t]].freed =
                                    @ + Count(steps, "xmlSchematronFreeValidCtxt")]
       /\ log_connected' = LogAfter(log_connected, steps)
    /\ vresult' = [vresult EXCEPT ![t] = ReturnCode(r)]
    /\ vpc' = [vpc EXCEPT ![t] = "idle"]
    /\ UNCHANGED <<ENABLE_SCHEMATRON, obj, c_schema, parser_ctxts, schemas, init_calls,
                   init_result, ninits, valid_ctxt, nvalidations, proxyVars>>

InitSchematron ==
    /\ ENABLE_SCHEMATRON \in BOOLEAN
    /\ obj = "new"
    /\ c_schema = NULL
    /\ parser_ctxts = <<>>
    /\ schemas = <<>>
    /\ init_calls = <<>>
    /\ init_result = InitResult("", "", TRUE, "", "")
    /\ ninits = 0
    /\ vpc = [t \in Threads |-> "idle"]
    /\ valid_ctxt = [t \in Threads |-> NULL]
    /\ ret = [t \in Threads |-> 0]
    /\ vresult = [t \in Threads |-> NoResult]
    /\ valid_ctxts = <<>>
    /\ fake_docs = [created |-> 0, destroyed |-> 0]
    /\ log_connected = FALSE
    /\ nvalidations = 0
    /\ trace = [t \in Threads |-> <<>>]

NextSchematron ==
    \/ \E etree \in SchemaTrees, file \in SchemaFiles, alloc_ok \in BOOLEAN :
          __init__(etree, file, alloc_ok)
    \/ __dealloc__
    \/ \E t \in Threads, etree \in {"tree", "notATree"}, vctx_ok \in BOOLEAN :
          CallBegin(t, etree, vctx_ok)
    \/ \E t \in Threads, r \in RetCodes : CallEnd(t, r)

InitTree ==
    /\ c_parent \in [Nodes -> Nodes \cup {NULL}]
    /\ c_elem \in [Nodes -> BOOLEAN]
    /\ c_parent[1] = NULL
    /\ c_elem[1]
    /\ \A n \in Nodes \ {1} : c_parent[n] \in {1, n - 1} /\ c_elem[c_parent[n]]

InitProxy ==
    /\ proxies = <<>>
    /\ pc = "idle"
    /\ call = [doc |-> "", c_node |-> NULL, proxy |-> 0]
    /\ ncalls = 0
    /\ dispatch = NotDispatched
    /\ last = NoCallYet
    /\ crashed = FALSE

NextProxy ==
    \/ \E doc \in Docs, c_node \in Nodes : LookupEnter(doc, c_node)
    \/ \E cls \in LookupReturns : LookupReturn(cls)
    \/ LookupRaise
    \/ Continue
    \/ \E self \in ProxyIds, name \in SimpleAccessors : Accessor(self, name)
    \/ \E self \in ProxyIds, index \in Indexes : __getitem__(self, index)
    \/ \E self \in ProxyIds, start \in Indexes, stop \in Indexes :
          __getslice__(self, start, stop)
    \/ \E self \in ProxyIds : __len__(self)
    \/ \E self \in ProxyIds : __nonzero__(self)
    \/ \E self \in ProxyIds, op \in {"getchildren", "__iter__"} : getchildren(self, op)
    \/ \E self \in ProxyIds, tag \in {"", "a", "b"}, reversed \in BOOLEAN :
          iterchildren(self, tag, reversed)
    \/ \E self \in ProxyIds : getparent(self)
    \/ \E self \in ProxyIds : getnext(self)
    \/ \E self \in ProxyIds : getprevious(self)

\* element class lookup on any document of MaxNodes nodes
InitLookup == InitTree /\ InitProxy /\ InitSchematron /\ ENABLE_SCHEMATRON
SpecProxy == InitLookup /\ [][NextProxy]_vars

\* one Schematron object, from allocation to deallocation; the document is the root
\* element above its text nodes
InitValidator ==
    /\ c_parent = [n \in Nodes |-> IF n = 1 THEN NULL ELSE 1]
    /\ c_elem = [n \in Nodes |-> n = 1]
    /\ InitProxy
    /\ InitSchematron
SpecSchematron == InitValidator /\ [][NextSchematron]_vars

\* ------------------------------------------------------------------ properties
\* the children of a node in document order, and the element-type ones among them
ChildrenOf(n) ==
    LET S == {m \in Nodes : c_parent[m] = n} IN
    CHOOSE sq \in [1..Cardinality(S) -> S] :
        \A i, j \in 1..Cardinality(S) : i < j => sq[i] < sq[j]
ElementChildrenOf(n) == SelectSeq(ChildrenOf(n), LAMBDA m : c_elem[m])
NodesOf(val) == [i \in 1..Len(val) |-> proxies[val[i]]._c_node]
HasTextBefore(n) == \E m \in Nodes : c_parent[m] = c_parent[n] /\ m < n /\ ~c_elem[m]
Min2(a, b) == IF a < b THEN a ELSE b

\* C1: every accessor called on a proxy whose node reference is NULL (its graph was
\* torn down) fails with the "Proxy invalidated!" AssertionError and makes no native
\* call with the NULL node.
C1_InvalidatedProxyFails ==
    (last.op # "" /\ last.c_node = NULL) =>
        (last.exc = "AssertionError" /\ ~last.native)

\* C2: whenever the dispatcher has handed control back, by a return or by an
\* exception of lookup(), every proxy of the graph of that run is invalidated and
\* the registry of its root is empty.
C2_TornDownOnEveryExit ==
    (pc = "idle" /\ dispatch.status \in {"returned", "raised"}) =>
        /\ proxies[dispatch.proxy]._dependent_proxies = <<>>
        /\ \A el \in ProxyIds :
              proxies[el]._source_proxy = dispatch.proxy => proxies[el]._c_node = NULL

\* C6: the dispatcher returns the class lookup() returned when that is not None,
\* and otherwise the result of the fallback invoked with the document and the
\* native node the dispatcher was called with.
C6_ClassOrFallback ==
    dispatch.status = "returned" =>
        IF dispatch.returned # "None"
        THEN dispatch.by = "lookup" /\ dispatch.cls = dispatch.returned
        ELSE /\ dispatch.by = "fallback"
             /\ dispatch.cls = "FallbackClass"
             /\ dispatch.doc = call.doc
             /\ dispatch.c_node = call.c_node
             /\ call.c_node \in Nodes
C6_Witness ==
    /\ dispatch.status = "returned"
    /\ dispatch.returned = "None"
    /\ dispatch.by = "fallback"
    /\ dispatch.c_node # 1

\* C7: p[n] on a valid proxy, n >= 0, is a proxy for the n-th element-type child
\* in document order, and IndexError exactly when n is not below the number of
\* element-type children.
C7_IndexedChild ==
    (last.op = "__getitem__" /\ last.c_node # NULL /\ last.a >= 0) =>
        LET ec == ElementChildrenOf(last.c_node) IN
        IF last.a < Len(ec)
        THEN last.exc = "" /\ Len(last.val) = 1 /\ NodesOf(last.val) = <<ec[last.a + 1]>>
        ELSE last.exc = "IndexError" /\ last.val = <<>>
C7_Witness ==
    /\ last.op = "__getitem__"
    /\ last.a = 1
    /\ last.exc = ""
    /\ Len(last.val) = 1
    /\ HasTextBefore(proxies[last.val[1]]._c_node)

\* C8: p[start:stop] on a valid proxy, start >= 0, is the proxies for the
\* element-type children of element index i, start <= i < min(stop, number of
\* element-type children), in document order; empty when there is no such i.
C8_RangeOfChildren ==
    (last.op = "__getslice__" /\ last.c_node # NULL /\ last.a >= 0) =>
        LET ec == ElementChildrenOf(last.c_node)
            hi == Min2(last.b, Len(ec))
            n == IF hi > last.a THEN hi - last.a ELSE 0
        IN /\ last.exc = ""
           /\ NodesOf(last.val) = [i \in 1..n |-> ec[last.a + i]]
C8_Witness ==
    /\ last.op = "__getslice__"
    /\ last.a = 0
    /\ last.b = 2
    /\ Len(last.val) = 2
    /\ HasTextBefore(proxies[last.val[2]]._c_node)

\* C9: on a valid proxy len(p) is the number of element-type children, bool(p)
\* is true iff that number is positive, and getchildren() / iteration gives one
\* proxy per element-type child, in document order.
C9_LenBoolChildren ==
    /\ (last.op = "__len__" /\ last.c_node # NULL) =>
          last.exc = "" /\ last.val = <<Len(ElementChildrenOf(last.c_node))>>
    /\ (last.op = "__nonzero__" /\ last.c_node # NULL) =>
          /\ last.exc = ""
          /\ last.val = <<IF Len(ElementChildrenOf(last.c_node)) > 0 THEN 1 ELSE 0>>
    /\ (last.op \in {"getchildren", "__iter__"} /\ last.c_node # NULL) =>
          /\ last.exc = ""
          /\ NodesOf(last.val) = ElementChildrenOf(last.c_node)
C9_Witness ==
    /\ last.op = "getchildren"
    /\ Len(last.val) = 2
    /\ Len(ChildrenOf(last.c_node)) > 2

\* C3: a __call__ that ran the native evaluation returns True for ret = 0, False
\* for ret > 0 and raises SchematronValidateError for every ret < 0.
C3_ThreeWayOutcome ==
    \A t \in Threads :
        vresult[t].evaluated =>
            /\ vresult[t].ret = 0 => vresult[t].value = "True" /\ vresult[t].exc = ""
            /\ vresult[t].ret > 0 => vresult[t].value = "False" /\ vresult[t].exc = ""
            /\ vresult[t].ret < 0 => vresult[t].exc = "SchematronValidateError"

NeitherGiven == ninits > 0 /\ init_result.etree = "None" /\ init_result.file = "None"
BothGiven == ninits > 0 /\ init_result.etree # "None" /\ init_result.file # "None"

\* C4 as claimed: __init__ with neither a document nor a file raises
\* SchematronParseError in every configuration, without any native call.
C4_NeitherAlwaysParseError ==
    NeitherGiven => (init_result.exc = "SchematronParseError" /\ init_calls = <<>>)

\* C4 as amended: __init__ with neither a document nor a file raises
\* SchematronParseError when Schematron support is compiled in and SchematronError
\* when it is not; in both cases it makes no native call and leaves no schema.
C4_NeitherFails ==
    NeitherGiven =>
        /\ init_result.exc =
              IF ENABLE_SCHEMATRON THEN "SchematronParseError" ELSE "SchematronError"
        /\ init_calls = <<>>
        /\ c_schema = NULL
C4_Witness == NeitherGiven /\ ENABLE_SCHEMATRON /\ init_result.exc = "SchematronParseError"

\* C5: with both a document and a file, the schema is compiled from a copy of the
\* document, the file is not consulted, and the outcome is the one the document
\* alone gives.
C5_DocumentTakesPriority ==
    /\ (BothGiven /\ ~ENABLE_SCHEMATRON) =>
          (init_result.exc = "SchematronError" /\ init_calls = <<>>)
    /\ (BothGiven /\ ENABLE_SCHEMATRON) =>
        /\ init_calls # <<>>
        /\ init_calls[1].fn = "_copyDocRoot"
        /\ \A i \in 1..Len(init_calls) : init_calls[i].src = init_result.etree
        /\ init_result.exc =
              IF ~init_result.alloc_ok THEN "MemoryError"
              ELSE IF IsSchematronSchema(init_result.etree) THEN ""
              ELSE "SchematronParseError"
        /\ init_result.schema_from = IF init_result.exc = "" THEN init_result.etree ELSE ""
        /\ init_result.exc = "" => schemas[c_schema].src = init_result.etree
C5_Witness ==
    /\ BothGiven
    /\ init_result.etree = "goodTree"
    /\ init_result.file = "badFile"
    /\ init_result.exc = ""
    /\ c_schema # NULL

\* C10: when the parser context could not be allocated, __init__ raises
\* MemoryError and neither xmlSchematronParse nor xmlSchematronFreeParserCtxt is
\* called with the NULL context.
C10_NoMemoryPropagates ==
    /\ \A i \in 1..Len(init_calls) :
          init_calls[i].fn \in {"xmlSchematronParse", "xmlSchematronFreeParserCtxt"}
              => init_calls[i].ptr # NULL
    /\ (\E i \in 1..Len(init_calls) :
          /\ init_calls[i].fn \in {"xmlSchematronNewDocParserCtxt",
                                   "xmlSchematronNewParserCtxt"}
          /\ init_calls[i].ptr = NULL)
       => (init_result.exc = "MemoryError" /\ c_schema = NULL)
C10_Witness ==
    /\ ninits > 0
    /\ ~init_result.alloc_ok
    /\ init_result.exc = "MemoryError"
    /\ Len(init_calls) = 2

\* ---- the statements of one run of __call__
StepsOf(t) == [i \in DOMAIN trace[t] |-> trace[t][i].step]
Finished(t) == vpc[t] = "idle" /\ trace[t] # <<>>
SessionCreated(t) == "_fakeRootDoc" \in SeqRange(StepsOf(t))
InNative == {t \in Threads : vpc[t] = "native"}

\* C11: a validation context that __call__ created is freed exactly once, and its
\* fake root document destroyed exactly once, before the call returns or raises;
\* a context that is not yet freed belongs to a call still in its native
\* evaluation, and a call that created none frees none.
C11_SessionFreedOnce ==
    /\ \A i \in DOMAIN valid_ctxts :
          /\ valid_ctxts[i].freed <= 1
          /\ valid_ctxts[i].freed = 0 => \E t \in InNative : valid_ctxt[t] = i
    /\ fake_docs.created - fake_docs.destroyed = Cardinality(InNative)
    /\ \A t \in Threads :
          Finished(t) =>
             LET steps == StepsOf(t)
                 made == IF SessionCreated(t) THEN 1 ELSE 0
             IN /\ Count(steps, "xmlSchematronFreeValidCtxt") = made
                /\ Count(steps, "_destroyFakeDoc") = made
                /\ steps[Len(steps)] \in {"return", "raise"}
                /\ SessionCreated(t) => valid_ctxts[valid_ctxt[t]].freed = 1
C11_Witness ==
    \E t \in Threads :
       /\ Finished(t)
       /\ SessionCreated(t)
       /\ vresult[t].exc = "SchematronValidateError"
       /\ valid_ctxts[valid_ctxt[t]].freed = 1
       /\ fake_docs.destroyed > 0

\* C12: in every finished run of __call__ the number of disconnect() calls equals
\* the number of connect() calls: none of either when the argument is rejected
\* before connecting, one of each when no validation context could be created,
\* when the evaluation reports an internal error and on a normal return; when
\* no call is in progress the error log is disconnected.
C12_ConnectionsBalanced ==
    /\ \A t \in Threads :
          Finished(t) =>
             LET steps == StepsOf(t) IN
             /\ Count(steps, "disconnect") = Count(steps, "connect")
             /\ Count(steps, "connect") = IF vresult[t].exc = "TypeError" THEN 0 ELSE 1
    /\ (\A t \in Threads : vpc[t] = "idle") => ~log_connected
C12_Witness ==
    \E t \in Threads :
       /\ Finished(t)
       /\ vresult[t].exc = "SchematronError"
       /\ c_schema # NULL
       /\ Count(StepsOf(t), "connect") = 1
       /\ \A u \in Threads : vpc[u] = "idle"

\* ---- positions inside one run of __call__, in its own program order
Pos(steps, name) ==
    IF name \in SeqRange(steps)
    THEN SetMin({i \in DOMAIN steps : steps[i] = name}) ELSE 0
\* whether the call's own connection is active when it runs its i-th statement
ConnectedAt(t, i) == LogAfter(FALSE, SubSeq(StepsOf(t), 1, i - 1))
\* whether the call's validation context exists when it runs its i-th statement
SessionAt(t, i) ==
    /\ SessionCreated(t)
    /\ Pos(StepsOf(t), "xmlSchematronNewValidCtxt") < i
    /\ ~(\E j \in 1..(i - 1) : StepsOf(t)[j] = "xmlSchematronFreeValidCtxt")

\* C13 as stated: within one call the log is connected only while the call's
\* validation context exists, and disconnect() comes before the context is freed.
C13_ConnectedOnlyWithSession ==
    \A t \in Threads :
       /\ \A i \in DOMAIN trace[t] : ConnectedAt(t, i) => SessionAt(t, i)
       /\ "xmlSchematronFreeValidCtxt" \in SeqRange(StepsOf(t))
             => Pos(StepsOf(t), "disconnect") < Pos(StepsOf(t), "xmlSchematronFreeValidCtxt")

\* C13, as the code has it: within one call the connection encloses the life
\* of the validation context: connect() comes before the context is created,
\* the context exists only while the call's connection is active (so the native
\* evaluation runs connected), and disconnect() comes after the context is
\* freed, or right after a failed creation.
C13_ConnectionEnclosesSession ==
    \A t \in Threads :
       LET steps == StepsOf(t) IN
       /\ \A i \in DOMAIN steps : SessionAt(t, i) => ConnectedAt(t, i)
       /\ "xmlSchematronNewValidCtxt" \in SeqRange(steps)
             => /\ Pos(steps, "connect") > 0
                /\ Pos(steps, "connect") < Pos(steps, "xmlSchematronNewValidCtxt")
       /\ "xmlSchematronFreeValidCtxt" \in SeqRange(steps)
             => /\ Pos(steps, "xmlSchematronValidateDoc")
                      < Pos(steps, "xmlSchematronFreeValidCtxt")
                /\ Pos(steps, "xmlSchematronFreeValidCtxt") < Pos(steps, "disconnect")
       /\ (Finished(t) /\ ~SessionCreated(t) /\ Pos(steps, "connect") > 0)
             => Pos(steps, "disconnect") = Pos(steps, "xmlSchematronNewValidCtxt") + 1
C13_Witness ==
    \E t \in Threads :
       /\ Finished(t)
       /\ SessionCreated(t)
       /\ Pos(StepsOf(t), "xmlSchematronFreeValidCtxt") > 0
       /\ Pos(StepsOf(t), "disconnect") > Pos(StepsOf(t), "xmlSchematronFreeValidCtxt")

\* C14: __call__ releases the interpreter lock only for xmlSchematronValidateDoc:
\* every other statement (creating the context and the fake root, destroying
\* the fake root, freeing the context, disconnect, raising or returning) runs
\* with the lock held; PyEval_RestoreThread is the statement right after the
\* native evaluation for every return code; a finished call has as many
\* reacquires as releases, at most one of each, and holds the lock at its end.
C14_LockReleasedOnlyForEvaluation ==
    \A t \in Threads :
       LET steps == StepsOf(t) IN
       /\ \A i \in DOMAIN trace[t] :
             /\ trace[t][i].held
                   <=> steps[i] \notin {"xmlSchematronValidateDoc", "PyEval_RestoreThread"}
             /\ steps[i] = "PyEval_SaveThread" /\ i < Len(steps)
                   => steps[i + 1] = "xmlSchematronValidateDoc"
             /\ steps[i] = "xmlSchematronValidateDoc"
                   => /\ steps[i - 1] = "PyEval_SaveThread"
                      /\ steps[i + 1] = "PyEval_RestoreThread"
       /\ vpc[t] = "native" <=> ~HeldAfter(trace[t])
       /\ Finished(t) =>
             /\ Count(steps, "PyEval_RestoreThread") = Count(steps, "PyEval_SaveThread")
             /\ Count(steps, "PyEval_SaveThread") = IF vresult[t].evaluated THEN 1 ELSE 0
C14_Witness ==
    \E t, u \in Threads :
       /\ Finished(t)
       /\ vresult[t].evaluated
       /\ vresult[t].ret = 0 - 1
       /\ Count(StepsOf(t), "PyEval_RestoreThread") = 1
       /\ vpc[u] = "native"

\* ---- the native calls of the last __init__
AllocCalls ==
    {i \in DOMAIN init_calls :
        /\ init_calls[i].fn \in {"xmlSchematronNewDocParserCtxt", "xmlSchematronNewParserCtxt"}
        /\ init_calls[i].ptr # NULL}
FreeCallsOf(ptr) ==
    {j \in DOMAIN init_calls :
        init_calls[j].fn = "xmlSchematronFreeParserCtxt" /\ init_calls[j].ptr = ptr}

\* C15: a parser context that __init__ allocated is released exactly once on
\* every path, after xmlSchematronParse has used it; when the parse yields no
\* schema, the release is the last native call before SchematronParseError is
\* raised.
C15_ParserContextReleasedOnce ==
    /\ \A c \in DOMAIN parser_ctxts : parser_ctxts[c].freed = 1
    /\ \A i \in AllocCalls :
          /\ Cardinality(FreeCallsOf(init_calls[i].ptr)) = 1
          /\ \A j \in FreeCallsOf(init_calls[i].ptr) :
                /\ j = Len(init_calls)
                /\ init_calls[j - 1].fn = "xmlSchematronParse"
                /\ init_calls[j - 1].ptr = init_calls[i].ptr
                /\ i < j - 1
    /\ (init_result.exc = "SchematronParseError" /\ init_calls # <<>>)
          => /\ AllocCalls # {}
             /\ init_calls[Len(init_calls)].fn = "xmlSchematronFreeParserCtxt"
C15_Witness ==
    /\ ninits > 0
    /\ init_result.exc = "SchematronParseError"
    /\ AllocCalls # {}
    /\ c_schema = NULL
    /\ parser_ctxts[Len(parser_ctxts)].freed = 1

\* ---- proxy graphs
IsRoot(el) == proxies[el].has_dependent_proxies /\ proxies[el]._source_proxy = el
Registry(root) == proxies[root]._dependent_proxies
TraversalOps ==
    {"__getitem__", "__getslice__", "getchildren", "__iter__", "iterchildren",
     "getparent", "getnext", "getprevious"}

\* C16: every proxy has a root proxy as its source; until that root is torn
\* down the proxy is valid and listed exactly once in the root's registry (the
\* root itself included) and in no other registry; a proxy returned by a
\* traversal has the source of the proxy it was called on; after teardown the
\* registry is empty and every proxy of the graph has a NULL node.
C16_RegistryInvariant ==
    /\ \A el \in ProxyIds :
          LET root == proxies[el]._source_proxy IN
          /\ root \in ProxyIds
          /\ IsRoot(root)
          /\ IF Registry(root) # <<>>
             THEN /\ Cardinality({i \in DOMAIN Registry(root) : Registry(root)[i] = el}) = 1
                  /\ proxies[el]._c_node # NULL
             ELSE proxies[el]._c_node = NULL
          /\ \A other \in ProxyIds \ {root} : el \notin SeqRange(Registry(other))
          /\ IsRoot(el) /\ Registry(el) # <<>> => Registry(el)[1] = el
    /\ last.op \in TraversalOps =>
          \A i \in DOMAIN last.val :
             /\ last.val[i] \in ProxyIds
             /\ proxies[last.val[i]]._source_proxy = proxies[last.self]._source_proxy
             /\ last.val[i] # last.self
C16_Witness ==
    \E a, b \in ProxyIds :
       /\ a # b
       /\ ~IsRoot(a) /\ ~IsRoot(b)
       /\ proxies[a]._c_node # NULL
       /\ proxies[a]._c_node = proxies[b]._c_node
       /\ proxies[a]._source_proxy = proxies[b]._source_proxy
       /\ Len(Registry(proxies[a]._source_proxy)) = 3

\* whether el is listed in the registry of any proxy of the store ps
Registered(ps, el) == \E r \in 1..Len(ps) : el \in SeqRange(ps[r]._dependent_proxies)

\* C17: no step gives an existing proxy a node it did not have (the node is
\* set at creation and can only become NULL), and a proxy whose node is NULL
\* keeps a NULL node and stays out of every registry through every step:
\* accessor calls, traversals, later classification calls; tearing a graph
\* down again changes nothing for it either.
C17_ValidityOneWay ==
    [][\A el \in ProxyIds :
          /\ proxies'[el]._c_node \in {proxies[el]._c_node, NULL}
          /\ proxies[el]._c_node = NULL =>
                /\ proxies'[el]._c_node = NULL
                /\ ~Registered(proxies', el)
                /\ \A root \in 1..Len(proxies') :
                      LET again == _freeProxies(proxies', root) IN
                      /\ again[el]._c_node = NULL
                      /\ ~Registered(again, el)]_vars
C17_Witness ==
    /\ ncalls = 2
    /\ pc = "lookup"
    /\ Cardinality({n \in Nodes : c_elem[n]}) = 1
    /\ proxies[1]._c_node = NULL
    /\ proxies[call.proxy]._c_node # NULL
    /\ last.self = 1
    /\ last.exc = "AssertionError"

\* C18: while a call's native evaluation is in progress the validator's error
\* log stays connected, whatever another thread's call does.
C18_LogKeptDuringEvaluation ==
    \A t \in InNative : log_connected

\* C19: every compiled schema that __init__ produced is freed exactly once, by
\* __dealloc__: none is freed while the object lives, none twice, and none is
\* left unfreed once the object is gone, however often and with whatever
\* outcome __init__ ran.
C19_SchemaFreedOnceAtDealloc ==
    \A i \in DOMAIN schemas :
       /\ schemas[i].freed <= 1
       /\ obj # "dead" => schemas[i].freed = 0
       /\ obj = "dead" => schemas[i].freed = 1
====
